---- MODULE Spec2Model ----
(***************************************************************************)
(* Model of the shared multi-party twitch combat handler of SUMUD:         *)
(*   world/combat/multi_party_combat_twitch.py  (SUCombatTwitchHandler)    *)
(*   world/combat/combat_base.py                (base handler, actions)    *)
(*   world/character/characters.py              (LivingMixin)              *)
(* An arena is one handler script stored on its anchor object (self.obj).  *)
(* Evennia runs commands and script callbacks on one reactor thread, so a  *)
(* command or a handler call is one step; the only thing that can happen   *)
(* between two iterations of the loop of process_queue is that the wall    *)
(* clock moves on.                                                         *)
(***************************************************************************)
EXTENDS Integers, Sequences, FiniteSets, TLC

\* ------------------------------------------------------------------ bounds
MaxArenas == 2
MaxQueue == 3
MaxTime == 2
MaxSeq == 3
MaxDamage == 1
StartHp == 1

\* ------------------------------------------------------- the world's objects
Combatants == {"p1", "p2", "n1"}
\* inherits_from(comb, SUCharacter) / is_pc
PCs == {"p1", "p2"}
Rooms == {"dungeon", "arena"}
\* caller.location is None
NoLocation == "nowhere"
\* the rooms with combat, a room without (SUHouse), and no room at all
Places == Rooms \cup {"town", NoLocation}
\* SUDungeonRoom.allow_pvp = False, SUPvPRoom.allow_pvp = True; SURoom's
\* default is False, and None has no such attribute
allow_pvp == [r \in Places |-> r = "arena"]
\* SUDungeonRoom.allow_combat = True, SUPvPRoom.allow_combat = True,
\* SUHouse.allow_combat = False
allow_combat == [r \in Places \ {NoLocation} |-> r \in Rooms]
StartRoom == "dungeon"

\* what a command can name as its target: a combatant, an object that is
\* neither SUCharacter nor SUMob and is within reach of every search, or a
\* name that caller.search finds nothing for
Things == {"chest"}
Nothing == "nothing"
Targets == Combatants \cup Things \cup {Nothing}
\* get_or_create_combathandler(obj) with obj = None
NoObject == "none"
\* the consumables a combatant carries
Items == {"potion"}
\* SUConsumable.uses = AttributeProperty(1)
StartUses == 1

ArenaIds == 1 .. MaxArenas
\* obj.ndb.combathandler is None
NoArena == 0

\* ------------------------------------------------------------ action dicts
action_classes == {"hold", "attack", "stunt", "use", "wield"}
fallback_action_dict == [key |-> "attack", dt |-> 1, repeat |-> FALSE]
DefaultDt == 1

\* dict.get(k, default) of an action dict (a record whose fields are its keys)
Get(d, k, default) == IF k \in DOMAIN d THEN d[k] ELSE default

\* the dicts handed to queue_action from outside: holds of every delay with
\* and without the repeat flag, the bare {"key": "hold"} of CmdHold, and
\* repeating attacks (CmdAttack queues the non-repeating one itself)
HoldDicts ==
    {[key |-> "hold"],
     [key |-> "hold", dt |-> 0, repeat |-> TRUE],
     [key |-> "hold", dt |-> -1, repeat |-> TRUE],
     [key |-> "hold", dt |-> 0, repeat |-> FALSE],
     [key |-> "hold", dt |-> 2, repeat |-> FALSE]}
AttackDicts ==
    {[key |-> "attack", target |-> t, dt |-> 1, repeat |-> TRUE] :
        t \in Combatants \ PCs}
\* npc.py queues the key "item", which is no action class; a dict without "key"
BadDicts == {[key |-> "item"], [dt |-> 1]}
ActionDicts == HoldDicts \cup AttackDicts \cup BadDicts
\* the stunt dicts of CmdStunt (boost and foil), due at once
StuntDicts ==
    {[key |-> "stunt", recipient |-> "p1", target |-> "n1", advantage |-> b,
      stunt_type |-> "strength", defense_type |-> "strength", dt |-> 0,
      repeat |-> FALSE] : b \in BOOLEAN}
\* the use dicts of CmdUseItem, with a target and without (None), due at once
UseDicts ==
    {[key |-> "use", item |-> i, target |-> t, dt |-> 0, repeat |-> FALSE] :
        i \in Items, t \in Combatants \cup {NoObject}}

\* ------------------------------------------------------------------- state
VARIABLES
    now,            \* time.time(), in whole time units
    nextArena,      \* the id the next created handler script gets
    alive,          \* alive[h]: script h exists (has an id, is not deleted)
    anchor,         \* anchor[h]: self.obj of handler h
    combatants,     \* combatants[h]: self.db.combatants, a list
    action_queue,   \* action_queue[h]: self.db.action_queue, a list of entries
    advantage_against,      \* advantage_against[h]: the targets mapped to True
    disadvantage_against,
    ndb,            \* ndb[c]: c.ndb.combathandler (NoArena when unset)
    hp,             \* hp[c]
    location,       \* location[c]
    uses,           \* uses[i]: the uses left of consumable i
    pc,             \* "idle", or "loop" inside the while loop of process_queue
    tickH,          \* the handler whose process_queue is running
    current_time,   \* process_queue's local current_time
    nextSeq,        \* history: submission number of the next accepted entry
    executed,       \* history: the entries popped by the running / last tick
    execCount,      \* history: execCount[i]: how often entry i was executed
    term,           \* history: what the last check_stop_combat that ended did
    ret,            \* history: what the last get_or_create returned
    fault           \* history: the last stop_combat, or the last refused call

vars == <<now, nextArena, alive, anchor, combatants, action_queue,
          advantage_against, disadvantage_against, ndb, hp, location, uses,
          pc, tickH, current_time, nextSeq, executed, execCount, term, ret,
          fault>>

arenaVars == <<alive, anchor, combatants, action_queue>>
advVars == <<advantage_against, disadvantage_against>>
worldVars == <<hp, location, uses>>
tickVars == <<pc, tickH, current_time>>

\* ----------------------------------------------------------- list helpers
InSeq(x, s) == \E i \in 1 .. Len(s) : s[i] = x
SeqToSet(s) == {s[i] : i \in 1 .. Len(s)}

RECURSIVE Concat(_)
\* the concatenation of a sequence of sequences
Concat(ss) == IF ss = <<>> THEN <<>> ELSE Head(ss) \o Concat(Tail(ss))

NoTerm == [h |-> NoArena, path |-> "none", victors |-> <<>>, defeated |-> <<>>,
           defeatCalls |-> <<>>, lootCalls |-> <<>>]
NoRet == [obj |-> "none", h |-> NoArena, prior |-> NoArena, created |-> FALSE]
\* every call so far returned normally
NoFault == [op |-> "none", h |-> NoArena, exc |-> "none"]

Init ==
    /\ now = 0
    /\ nextArena = 1
    /\ alive = [h \in ArenaIds |-> FALSE]
    /\ anchor = [h \in ArenaIds |-> "none"]
    /\ combatants = [h \in ArenaIds |-> <<>>]
    /\ action_queue = [h \in ArenaIds |-> <<>>]
    /\ advantage_against = [h \in ArenaIds |-> {}]
    /\ disadvantage_against = [h \in ArenaIds |-> {}]
    /\ ndb = [c \in Combatants |-> NoArena]
    /\ hp = [c \in Combatants |-> StartHp]
    /\ location = [c \in Combatants |-> StartRoom]
    /\ uses = [i \in Items |-> StartUses]
    /\ pc = "idle"
    /\ tickH = NoArena
    /\ current_time = 0
    /\ nextSeq = 1
    /\ executed = <<>>
    /\ execCount = [i \in 1 .. MaxSeq |-> 0]
    /\ term = NoTerm
    /\ ret = NoRet
    /\ fault = NoFault

\* --------------------------------------------------------- the action queue
\* one step of list.sort(key=time_to_act), which is stable: e goes behind every
\* entry that is not later than it
RECURSIVE InsertBeforeEqual(_, _)
\* an unstable sort step: e goes in front of the entries of its own time
InsertBeforeEqual(s, e) ==
    IF s = <<>> THEN <<e>>
    ELSE IF Head(s).time_to_act < e.time_to_act
         THEN <<Head(s)>> \o InsertBeforeEqual(Tail(s), e)
         ELSE <<e>> \o s

RECURSIVE InsertStable(_, _)
InsertStable(s, e) ==
    IF s = <<>> THEN <<e>>
    ELSE IF Head(s).time_to_act <= e.time_to_act
         THEN <<Head(s)>> \o InsertStable(Tail(s), e)
         ELSE <<e>> \o s

RECURSIVE SortQueue(_)
\* self.db.action_queue.sort(key=lambda x: x["time_to_act"])
SortQueue(q) ==
    IF q = <<>> THEN <<>>
    ELSE InsertStable(SortQueue(SubSeq(q, 1, Len(q) - 1)), q[Len(q)])

\* a validation that lets any key through
AcceptedAnyKey(roster, ad, c) ==
    /\ InSeq(c, roster)
    /\ "key" \in DOMAIN ad

\* a validation that lets a combatant outside the roster through
AcceptedAnyone(roster, ad, c) ==
    /\ "key" \in DOMAIN ad
    /\ ad.key \in action_classes

\* the three early returns of queue_action
Accepted(roster, ad, c) ==
    /\ InSeq(c, roster)
    /\ "key" \in DOMAIN ad
    /\ ad.key \in action_classes

\* time_to_act = time.time() + action_dict.get("dt", 1)
TimeToAct(ad, t) == t + Get(ad, "dt", DefaultDt)

\* queue_action(action_dict, combatant) at time t; id is the entry's
\* submission number
QueueActionResult(q, roster, ad, c, t, id) ==
    IF ~Accepted(roster, ad, c) THEN q
    ELSE SortQueue(Append(q, [combatant |-> c, action_dict |-> ad,
                              time_to_act |-> TimeToAct(ad, t), seq |-> id]))

\* -------------------------------------------------------------- the roster
\* add_combatant: append unless already a member
AddCombatant(roster, c) == IF InSeq(c, roster) THEN roster ELSE Append(roster, c)

\* a get_sides that leaves the combatant out of its own side
GetSidesWithoutSelf(h, c) ==
    LET roster == combatants[h]
        NotC(x) == x # c
        IsPc(x) == x \in PCs /\ x # c
        IsNpc(x) == x \notin PCs /\ x # c
        pcs == SelectSeq(roster, IsPc)
        npcs == SelectSeq(roster, IsNpc)
    IN  IF allow_pvp[location[anchor[h]]]
        THEN [allies |-> <<>>, enemies |-> SelectSeq(roster, NotC)]
        ELSE IF c \in PCs
             THEN [allies |-> pcs, enemies |-> npcs]
             ELSE [allies |-> npcs, enemies |-> pcs]

\* a get_sides that never looks at the room's allow_pvp flag
GetSidesByKind(h, c) ==
    LET roster == combatants[h]
        IsPc(x) == x \in PCs
        IsNpc(x) == x \notin PCs
        pcs == SelectSeq(roster, IsPc)
        npcs == SelectSeq(roster, IsNpc)
    IN  IF InSeq(c, pcs)
        THEN [allies |-> pcs, enemies |-> npcs]
        ELSE [allies |-> npcs, enemies |-> pcs]

\* get_sides(combatant) of handler h: <<allies, enemies>> as the code builds
\* them; in the non-PvP branch the combatant's own side includes the
\* combatant itself
GetSides(h, c) ==
    LET roster == combatants[h]
        loc == location[anchor[h]]
        NotC(x) == x # c
        IsPc(x) == x \in PCs
        IsNpc(x) == x \notin PCs
        pcs == SelectSeq(roster, IsPc)
        npcs == SelectSeq(roster, IsNpc)
    IN  IF allow_pvp[loc]
        THEN [allies |-> <<c>>, enemies |-> SelectSeq(roster, NotC)]
        ELSE IF InSeq(c, pcs)
             THEN [allies |-> pcs, enemies |-> npcs]
             ELSE [allies |-> npcs, enemies |-> pcs]

\* an activity test that forgets the location
ActiveAnywhere(h, c) == hp[c] > 0

\* an activity test that forgets the hit points
ActiveWhenPresent(h, c) == location[c] = location[anchor[h]]

\* comb.hp > 0 and comb.location == location
ActiveIn(h, c) == hp[c] > 0 /\ location[c] = location[anchor[h]]

\* a victor loop that hands the victors to the defeat hook
DefeatCallsOnVictors(victors, defeated) == victors

\* the victors' calls of SUMob.at_defeat: every victor calls it on every loser
DefeatCalls(victors, defeated) ==
    Concat([i \in 1 .. Len(victors) |-> defeated])

\* the loot calls: every player-controlled victor loots every loser
\* (LivingMixin.pre_loot returns True)
LootCalls(victors, defeated) ==
    Concat([i \in 1 .. Len(victors) |->
              IF victors[i] \in PCs
              THEN [j \in 1 .. Len(defeated) |-> <<victors[i], defeated[j]>>]
              ELSE <<>>])

\* check_stop_combat of handler h: what it decides and which hooks it calls
CheckStopCombat(h) ==
    LET sides == GetSides(h, anchor[h])
        Act(x) == ActiveIn(h, x)
        active_allies == SelectSeq(sides.allies, Act)
        active_enemies == SelectSeq(sides.enemies, Act)
        NotActA(x) == ~InSeq(x, active_allies)
        NotActE(x) == ~InSeq(x, active_enemies)
        defeated == SelectSeq(sides.allies, NotActA) \o
                    SelectSeq(sides.enemies, NotActE)
        victors == active_allies \o active_enemies
    IN  IF active_allies = <<>> /\ active_enemies = <<>>
        THEN [stop |-> TRUE, h |-> h, path |-> "noone", victors |-> <<>>,
              defeated |-> defeated, defeatCalls |-> <<>>, lootCalls |-> <<>>]
        ELSE IF active_allies = <<>> \/ active_enemies = <<>>
        THEN [stop |-> TRUE, h |-> h, path |-> "victory", victors |-> victors,
              defeated |-> defeated,
              defeatCalls |-> DefeatCalls(victors, defeated),
              lootCalls |-> LootCalls(victors, defeated)]
        ELSE [stop |-> FALSE, h |-> h, path |-> "continue", victors |-> <<>>,
              defeated |-> <<>>, defeatCalls |-> <<>>, lootCalls |-> <<>>]

\* get_sides(combatant) of a handler with the roster of h whose self.obj is
\* obj: the location and its allow_pvp flag are those of obj
GetSidesOn(h, obj, c) ==
    LET roster == combatants[h]
        loc == location[obj]
        NotC(x) == x # c
        IsPc(x) == x \in PCs
        IsNpc(x) == x \notin PCs
        pcs == SelectSeq(roster, IsPc)
        npcs == SelectSeq(roster, IsNpc)
    IN  IF allow_pvp[loc]
        THEN [allies |-> <<c>>, enemies |-> SelectSeq(roster, NotC)]
        ELSE IF InSeq(c, pcs)
             THEN [allies |-> pcs, enemies |-> npcs]
             ELSE [allies |-> npcs, enemies |-> pcs]

\* what check_stop_combat of a handler with the roster of h decides when its
\* self.obj is obj: the sides are get_sides(self.obj), the location is
\* self.obj.location
CheckStopCombatOn(h, obj) ==
    LET sides == GetSidesOn(h, obj, obj)
        Act(x) == hp[x] > 0 /\ location[x] = location[obj]
        active_allies == SelectSeq(sides.allies, Act)
        active_enemies == SelectSeq(sides.enemies, Act)
        NotActA(x) == ~InSeq(x, active_allies)
        NotActE(x) == ~InSeq(x, active_enemies)
        defeated == SelectSeq(sides.allies, NotActA) \o
                    SelectSeq(sides.enemies, NotActE)
        victors == active_allies \o active_enemies
    IN  IF active_allies = <<>> /\ active_enemies = <<>>
        THEN [path |-> "noone", victors |-> <<>>, defeated |-> defeated]
        ELSE IF active_allies = <<>> \/ active_enemies = <<>>
        THEN [path |-> "victory", victors |-> victors, defeated |-> defeated]
        ELSE [path |-> "continue", victors |-> <<>>, defeated |-> <<>>]

\* a stop_combat that leaves the back-references alone
NdbUntouched(h) == ndb

\* what stop_combat leaves in the back-references: every roster member's
\* ndb.combathandler is deleted, whatever it named
NdbAfterStop(h) ==
    [c \in Combatants |-> IF InSeq(c, combatants[h]) THEN NoArena ELSE ndb[c]]

\* a stop_combat that leaves the queue as it is
DoStopKeepsQueue(h) ==
    /\ ndb' = NdbAfterStop(h)
    /\ combatants' = [combatants EXCEPT ![h] = <<>>]
    /\ advantage_against' = [advantage_against EXCEPT ![h] = {}]
    /\ disadvantage_against' = [disadvantage_against EXCEPT ![h] = {}]
    /\ alive' = [alive EXCEPT ![h] = FALSE]
    /\ UNCHANGED <<anchor, action_queue>>

\* stop_combat of handler h: roster and queue cleared, the script deleted
\* and with it its attributes, the flag dicts among them
DoStop(h) ==
    /\ ndb' = NdbAfterStop(h)
    /\ combatants' = [combatants EXCEPT ![h] = <<>>]
    /\ action_queue' = [action_queue EXCEPT ![h] = <<>>]
    /\ advantage_against' = [advantage_against EXCEPT ![h] = {}]
    /\ disadvantage_against' = [disadvantage_against EXCEPT ![h] = {}]
    /\ alive' = [alive EXCEPT ![h] = FALSE]
    /\ UNCHANGED anchor

\* ------------------------------------------------------------ the flags
\* a lookup keyed by the one who holds the flag
HasAdvantageOfHolder(h, combatant, target) == combatant \in advantage_against[h]

\* has_advantage(combatant, target): advantage_against.get(target, False)
HasAdvantage(h, combatant, target) == target \in advantage_against[h]

\* has_disadvantage(combatant, target): disadvantage_against.get(target, False)
HasDisadvantage(h, combatant, target) == target \in disadvantage_against[h]

\* the flags CombatActionAttack.execute hands to weapon.use: advantage is
\* looked up in the handler, the keyword disadvantage is not passed and keeps
\* the default False of SUWeapon.use
WeaponUseArgs(h, attacker, target) ==
    [advantage |-> HasAdvantage(h, attacker, target), disadvantage |-> FALSE]

\* ------------------------------------------------------------ the registry
\* obj.scripts.get(key): the live handler scripts stored on obj
ScriptsOn(obj) == {h \in ArenaIds : alive[h] /\ anchor[h] = obj}

\* the handler get_or_create_combathandler finds without creating one: the
\* back-reference if it names a live script, else the script stored on obj
Found(obj) ==
    IF ndb[obj] # NoArena /\ alive[ndb[obj]] THEN ndb[obj]
    ELSE IF ScriptsOn(obj) # {}
         THEN CHOOSE h \in ScriptsOn(obj) : \A g \in ScriptsOn(obj) : h <= g
         ELSE NoArena

\* the handler get_or_create_combathandler(obj) returns
GetOrCreateHandler(obj) == IF Found(obj) # NoArena THEN Found(obj) ELSE nextArena

\* ------------------------------------------------------- action execution
\* CombatAction.__init__ copies a key of the action dict to an attribute of
\* the action only if the key starts with "_"; none of the keys in use does
UnderscoreKeys == {}
ActionAttrs(ad) == DOMAIN ad \cap UnderscoreKeys

\* the attributes execute() of each action class reads from the action
Reads(key) ==
    CASE key = "hold" -> {}
      [] key = "attack" -> {"target"}
      [] key = "stunt" -> {"recipient", "target", "advantage"}
      [] key = "use" -> {"item", "target"}
      [] key = "wield" -> {"item"}
      [] OTHER -> {}

\* action.can_use(): CombatAction.can_use returns True and no action class
\* overrides it
CanUse(ad) == TRUE

\* execute() raises AttributeError when it reads an attribute never set
ExecuteRaises(ad) == ~(Reads(ad.key) \subseteq ActionAttrs(ad))

\* SUConsumable.at_pre_use(user, target): False if there is a target in
\* another location, False if no uses are left; otherwise the method ends
\* without a return statement, which gives None
AtPreUse(item, user, target) ==
    IF target # NoObject /\ location[user] # location[target] THEN "False"
    ELSE IF uses[item] <= 0 THEN "False"
    ELSE "None"

\* the truth value of a returned value in `if item.at_pre_use(user, target):`
Truthy(v) == v = "True"

\* SUConsumable.at_post_use: self.uses -= 1 (the item is deleted at 0)
UsesAfterPostUse(item) == [uses EXCEPT ![item] = @ - 1]

\* what execute() of an action does to the uses of the items:
\* CombatActionUseItem.execute calls at_pre_use and, if the returned value is
\* true, use and at_post_use; the other action classes touch no consumable
UsesAfterExecute(ad, user) ==
    IF ad.key = "use" /\ Truthy(AtPreUse(ad.item, user, ad.target))
    THEN UsesAfterPostUse(ad.item)
    ELSE uses

\* the re-queue step of execute_next_action (the two tests of "repeat"), on
\* the queue q left by the pop
Requeue(q, roster, ad, c, t, id) ==
    IF Get(ad, "repeat", TRUE)
    THEN QueueActionResult(q, roster, ad, c, t, id)
    ELSE IF Get(ad, "repeat", FALSE)
         THEN QueueActionResult(q, roster, fallback_action_dict, c, t, id)
         ELSE q

\* ----------------------------------------------------------------- actions
\* the history variables describe the last call only: a step that is no tick
\* step forgets the tick log, a step that ends no combat forgets the last
\* ending, a step that is no get_or_create forgets the last returned handler
ForgetTick == executed' = <<>>
ForgetTerm == term' = NoTerm
ForgetRet == ret' = NoRet
ForgetFault == fault' = NoFault

\* time passes (also between two iterations of the loop of process_queue)
Advance ==
    /\ now < MaxTime
    /\ now' = now + 1
    /\ ForgetFault
    /\ UNCHANGED <<nextArena, arenaVars, advVars, ndb, worldVars, tickVars,
                   nextSeq, executed, execCount, term, ret>>

\* create_script, at_script_creation: a new handler on obj, nothing in it
CreateArena(h, obj, roster, queue) ==
    /\ alive' = [alive EXCEPT ![h] = TRUE]
    /\ anchor' = [anchor EXCEPT ![h] = obj]
    /\ combatants' = [combatants EXCEPT ![h] = roster]
    /\ action_queue' = [action_queue EXCEPT ![h] = queue]
    /\ advantage_against' = [advantage_against EXCEPT ![h] = {}]
    /\ disadvantage_against' = [disadvantage_against EXCEPT ![h] = {}]
    /\ nextArena' = nextArena + 1

\* the script stored on obj before a call of get_or_create (history)
PriorOf(obj) == IF ScriptsOn(obj) = {} THEN NoArena
                ELSE CHOOSE h \in ScriptsOn(obj) : TRUE

\* SUCombatTwitchHandler.get_or_create_combathandler(obj), called on its own
\* (CmdLook, CmdUseItem and CmdStunt get no further than this call)
GetOrCreate(obj) ==
    /\ pc = "idle"
    /\ IF obj = NoObject
       THEN \* raise CombatFailure
            /\ fault' = [op |-> "get_or_create", h |-> NoArena,
                         exc |-> "CombatFailure"]
            /\ ForgetRet
            /\ UNCHANGED <<arenaVars, advVars, nextArena, ndb>>
       ELSE LET h == GetOrCreateHandler(obj)
                created == h = nextArena
            IN  /\ created => nextArena <= MaxArenas
                /\ IF created
                   THEN CreateArena(h, obj, <<>>, <<>>)
                   ELSE UNCHANGED <<arenaVars, advVars, nextArena>>
                /\ ndb' = [ndb EXCEPT ![obj] = h]
                /\ ret' = [obj |-> obj, h |-> h, prior |-> PriorOf(obj),
                           created |-> created]
                /\ ForgetFault
    /\ ForgetTick /\ ForgetTerm
    /\ UNCHANGED <<now, worldVars, tickVars, nextSeq, execCount>>

\* a test that lets every caller that has a location through
AtPreCommandAnyRoom(caller) == location[caller] # NoLocation

\* at_pre_command lets the command go on (it raises InterruptCommand if the
\* caller has no location or the location's allow_combat is false)
AtPreCommand(caller) ==
    /\ location[caller] # NoLocation
    /\ allow_combat[location[caller]]

\* caller.search(name) finds the target: a thing within reach, or a
\* combatant in the caller's location
Search(caller, target) ==
    \/ target \in Things
    \/ target \in Combatants /\ location[target] = location[caller]

\* isinstance(target, (SUCharacter, SUMob))
IsCharacter(target) == target \in Combatants

\* the command is given up by raise InterruptCommand(): nothing has changed
Interrupted(cmd) ==
    /\ fault' = [op |-> cmd, h |-> NoArena, exc |-> "InterruptCommand"]
    /\ ForgetTick /\ ForgetTerm /\ ForgetRet
    /\ UNCHANGED <<now, nextArena, arenaVars, advVars, ndb, worldVars,
                   tickVars, nextSeq, execCount>>

\* `if not target: return` of a command's func: nothing has changed
Returned ==
    /\ ForgetTick /\ ForgetTerm /\ ForgetRet /\ ForgetFault
    /\ UNCHANGED <<now, nextArena, arenaVars, advVars, ndb, worldVars,
                   tickVars, nextSeq, execCount>>

\* CmdHold (CmdWield ends the same way once the item is found): the command
\* calls get_or_create_combathandler() without a target, which raises
\* InterruptCommand at `if not target`
CmdHold(caller) ==
    /\ pc = "idle"
    /\ Interrupted("CmdHold")

\* the command `wield <item>` with an item the caller carries: at_pre_command
\* raises InterruptCommand or else func calls get_or_create_combathandler()
\* without a target, which raises it
CmdWield(caller) ==
    /\ pc = "idle"
    /\ Interrupted("CmdWield")

\* the end of CmdStunt.func and CmdUseItem.func: the caller's handler is got
\* or created, then combathandler.queue_action({...}) is called without the
\* combatant argument, which raises TypeError; nothing is added or queued
HandlerThenTypeError(cmd, caller) ==
    LET h == GetOrCreateHandler(caller)
        created == h = nextArena
    IN  /\ created => nextArena <= MaxArenas
        /\ IF created
           THEN CreateArena(h, caller, <<>>, <<>>)
           ELSE UNCHANGED <<arenaVars, advVars, nextArena>>
        /\ ndb' = [ndb EXCEPT ![caller] = h]
        /\ ret' = [obj |-> caller, h |-> h, prior |-> PriorOf(caller),
                   created |-> created]
        /\ fault' = [op |-> cmd, h |-> h, exc |-> "TypeError"]
        /\ ForgetTick /\ ForgetTerm
        /\ UNCHANGED <<now, worldVars, tickVars, nextSeq, execCount>>

\* the command `boost|foil <ability> <recipient> <target>` with a valid
\* ability: at_pre_command, then func
CmdStunt(caller, recipient, target) ==
    /\ pc = "idle"
    /\ IF ~AtPreCommand(caller) THEN Interrupted("CmdStunt")
       ELSE IF ~Search(caller, target) THEN Returned
       ELSE IF ~Search(caller, recipient) THEN Returned
       ELSE IF ~IsCharacter(target) THEN Interrupted("CmdStunt")
       ELSE HandlerThenTypeError("CmdStunt", caller)

\* the command `use <item> on <target>` with an item the caller carries:
\* at_pre_command, then func
CmdUseItem(caller, target) ==
    /\ pc = "idle"
    /\ IF ~AtPreCommand(caller) THEN Interrupted("CmdUseItem")
       ELSE IF ~Search(caller, target) THEN Returned
       ELSE IF ~IsCharacter(target) THEN Interrupted("CmdUseItem")
       ELSE HandlerThenTypeError("CmdUseItem", caller)

\* CmdAttack.func from get_or_create_combathandler on: get or create the
\* caller's handler, add caller and target, queue the attack
CmdAttackDone(caller, target) ==
    /\ nextSeq <= MaxSeq
    /\ LET h == GetOrCreateHandler(caller)
           created == h = nextArena
           roster0 == IF created THEN <<>> ELSE combatants[h]
           queue0 == IF created THEN <<>> ELSE action_queue[h]
           roster1 == AddCombatant(roster0, caller)
           roster2 == AddCombatant(roster1, target)
           ad == [key |-> "attack", target |-> target, dt |-> 1, repeat |-> FALSE]
           queue1 == QueueActionResult(queue0, roster2, ad, caller, now, nextSeq)
       IN  /\ created => nextArena <= MaxArenas
           /\ Len(queue0) < MaxQueue
           /\ IF created
              THEN CreateArena(h, caller, roster2, queue1)
              ELSE /\ combatants' = [combatants EXCEPT ![h] = roster2]
                   /\ action_queue' = [action_queue EXCEPT ![h] = queue1]
                   /\ UNCHANGED <<alive, anchor, advVars, nextArena>>
           /\ ndb' = [c \in Combatants |->
                        IF c = caller \/ (c = target /\ ~InSeq(c, roster1))
                        THEN h ELSE ndb[c]]
           /\ nextSeq' = IF Len(queue1) > Len(queue0) THEN nextSeq + 1 ELSE nextSeq
           /\ ret' = [obj |-> caller, h |-> h, prior |-> PriorOf(caller),
                      created |-> created]
    /\ ForgetTick /\ ForgetTerm /\ ForgetFault
    /\ UNCHANGED <<now, worldVars, tickVars, execCount>>

\* the command `attack <target>`: at_pre_command, then func, which searches
\* the target and gets no further than get_or_create_combathandler if the
\* target is no character
CmdAttack(caller, target) ==
    /\ pc = "idle"
    /\ IF ~AtPreCommand(caller) THEN Interrupted("CmdAttack")
       ELSE IF ~Search(caller, target) THEN Returned
       ELSE IF ~IsCharacter(target) THEN Interrupted("CmdAttack")
       ELSE CmdAttackDone(caller, target)

\* handler.queue_action(action_dict, combatant) called from outside a tick
QueueAction(h, c, ad) ==
    /\ pc = "idle"
    /\ alive[h]
    /\ nextSeq <= MaxSeq
    /\ Len(action_queue[h]) < MaxQueue
    /\ LET q == QueueActionResult(action_queue[h], combatants[h], ad, c, now, nextSeq)
       IN  /\ action_queue' = [action_queue EXCEPT ![h] = q]
           /\ nextSeq' = IF Len(q) > Len(action_queue[h]) THEN nextSeq + 1 ELSE nextSeq
    /\ fault' = IF Accepted(combatants[h], ad, c) THEN NoFault
                ELSE [op |-> "queue_action", h |-> h, exc |-> "rejected"]
    /\ ForgetTick /\ ForgetTerm /\ ForgetRet
    /\ UNCHANGED <<now, nextArena, alive, anchor, combatants, advVars, ndb,
                   worldVars, tickVars, execCount>>

\* handler.give_advantage(recipient, target): keyed by the target alone
GiveAdvantage(h, recipient, target) ==
    /\ pc = "idle"
    /\ alive[h]
    /\ advantage_against' = [advantage_against EXCEPT ![h] = @ \cup {target}]
    /\ ForgetTick /\ ForgetTerm /\ ForgetRet /\ ForgetFault
    /\ UNCHANGED <<now, nextArena, arenaVars, disadvantage_against, ndb, worldVars,
                   tickVars, nextSeq, execCount>>

\* handler.give_disadvantage(recipient, target)
GiveDisadvantage(h, recipient, target) ==
    /\ pc = "idle"
    /\ alive[h]
    /\ disadvantage_against' = [disadvantage_against EXCEPT ![h] = @ \cup {target}]
    /\ ForgetTick /\ ForgetTerm /\ ForgetRet /\ ForgetFault
    /\ UNCHANGED <<now, nextArena, arenaVars, advantage_against, ndb, worldVars,
                   tickVars, nextSeq, execCount>>

\* LivingMixin.at_damage(damage), called by whatever hurts the combatant
AtDamage(c, damage) ==
    /\ pc = "idle"
    /\ hp[c] > 0
    /\ hp' = [hp EXCEPT ![c] = @ - damage]
    /\ ForgetTick /\ ForgetTerm /\ ForgetRet /\ ForgetFault
    /\ UNCHANGED <<now, nextArena, arenaVars, advVars, ndb, location, uses, tickVars,
                   nextSeq, execCount>>

\* the combatant walks (or is moved) to another room
MoveTo(c, room) ==
    /\ pc = "idle"
    /\ location[c] # room
    /\ location' = [location EXCEPT ![c] = room]
    /\ ForgetTick /\ ForgetTerm /\ ForgetRet /\ ForgetFault
    /\ UNCHANGED <<now, nextArena, arenaVars, advVars, ndb, hp, uses, tickVars,
                   nextSeq, execCount>>

\* handler.stop_combat() called from outside a tick
StopCombat(h) ==
    /\ pc = "idle"
    /\ alive[h]
    /\ DoStop(h)
    /\ fault' = [op |-> "stop_combat", h |-> h, exc |-> "none"]
    /\ ForgetTick /\ ForgetTerm /\ ForgetRet
    /\ UNCHANGED <<now, nextArena, worldVars, tickVars, nextSeq, execCount>>

\* self.db.combatants of handler h is None: delete() has removed the
\* attributes of a deleted script, and .db gives None for a missing one
DbCombatantsIsNone(h) == ~alive[h]

\* handler.stop_combat() called once more, through a reference kept to a
\* handler that has been stopped: `for combatant in self.db.combatants`
\* raises TypeError and nothing after it runs
StopCombatAgain(h) ==
    /\ pc = "idle"
    /\ h < nextArena
    /\ DbCombatantsIsNone(h)
    /\ fault' = [op |-> "stop_combat", h |-> h, exc |-> "TypeError"]
    /\ ForgetTick /\ ForgetTerm /\ ForgetRet
    /\ UNCHANGED <<now, nextArena, arenaVars, advVars, ndb, worldVars, tickVars,
                   nextSeq, execCount>>

\* at_repeat -> process_queue of handler h, up to the while loop
TickStart(h) ==
    /\ pc = "idle"
    /\ alive[h]
    /\ executed' = <<>>
    /\ IF action_queue[h] = <<>>
       THEN UNCHANGED tickVars
       ELSE /\ pc' = "loop"
            /\ tickH' = h
            /\ current_time' = now
    /\ ForgetTerm /\ ForgetRet /\ ForgetFault
    /\ UNCHANGED <<now, nextArena, arenaVars, advVars, ndb, worldVars, nextSeq,
                   execCount>>

\* the entries of the ticked queue behind its head that are due in the
\* running tick
DueBehindHead ==
    {i \in 2 .. Len(action_queue[tickH]) :
        action_queue[tickH][i].time_to_act <= current_time}

\* the entry the log keeps of a popped queue entry, with the number of due
\* entries the pop has left in the queue
Logged(e, outcome) ==
    [seq |-> e.seq, combatant |-> e.combatant, action_dict |-> e.action_dict,
     time_to_act |-> e.time_to_act, at |-> now, outcome |-> outcome,
     due |-> Cardinality(DueBehindHead)]

\* reading the head without removing it
PoppedKeepsHead(q) == q

\* the queue after next_action = self.db.action_queue.pop(0)
Popped(q) == Tail(q)

\* one iteration of the while loop: pop the head, execute_next_action on it
TickPop ==
    /\ pc = "loop"
    /\ action_queue[tickH] # <<>>
    /\ Head(action_queue[tickH]).time_to_act <= current_time
    /\ LET h == tickH
           e == Head(action_queue[h])
           ad == e.action_dict
           c == e.combatant
           q1 == Popped(action_queue[h])
           q2 == Requeue(q1, combatants[h], ad, c, now, nextSeq)
           check == CheckStopCombat(h)
       IN  /\ execCount' = [execCount EXCEPT ![e.seq] = @ + 1]
           /\ IF CanUse(ad) /\ ExecuteRaises(ad)
              THEN \* the AttributeError leaves process_queue
                   /\ executed' = Append(executed, Logged(e, "raised"))
                   /\ action_queue' = [action_queue EXCEPT ![h] = q1]
                   /\ pc' = "idle"
                   /\ tickH' = NoArena
                   /\ current_time' = 0
                   /\ UNCHANGED <<alive, anchor, combatants, advVars, ndb,
                                  uses, nextSeq, term>>
              ELSE /\ executed' = Append(executed, Logged(e, "done"))
                   /\ uses' = UsesAfterExecute(ad, c)
                   /\ Len(q2) > Len(q1) => nextSeq <= MaxSeq
                   /\ nextSeq' = IF Len(q2) > Len(q1) THEN nextSeq + 1 ELSE nextSeq
                   /\ UNCHANGED tickVars
                   /\ IF check.stop
                      THEN DoStop(h) /\ term' = check
                      ELSE /\ action_queue' = [action_queue EXCEPT ![h] = q2]
                           /\ UNCHANGED <<alive, anchor, combatants, advVars,
                                          ndb, term>>
    /\ UNCHANGED <<now, nextArena, hp, location, ret, fault>>

\* the loop condition fails: process_queue returns
TickReturn ==
    /\ pc = "loop"
    /\ ~(/\ action_queue[tickH] # <<>>
         /\ Head(action_queue[tickH]).time_to_act <= current_time)
    /\ pc' = "idle"
    /\ tickH' = NoArena
    /\ current_time' = 0
    /\ UNCHANGED <<now, nextArena, arenaVars, advVars, ndb, worldVars, nextSeq,
                   executed, execCount, term, ret, fault>>

\* the whole program: every operation, from anybody, on any handler
Next ==
    \/ Advance
    \/ \E obj \in Combatants \cup {NoObject} : GetOrCreate(obj)
    \/ \E caller \in Combatants, target \in Targets : CmdAttack(caller, target)
    \/ \E caller \in Combatants : CmdHold(caller)
    \/ \E caller \in Combatants : CmdWield(caller)
    \/ \E caller \in Combatants, recipient \in Combatants, target \in Targets :
          CmdStunt(caller, recipient, target)
    \/ \E caller \in Combatants, target \in Targets : CmdUseItem(caller, target)
    \/ \E h \in ArenaIds, c \in Combatants,
          ad \in ActionDicts \cup StuntDicts \cup UseDicts : QueueAction(h, c, ad)
    \/ \E h \in ArenaIds, r \in Combatants, t \in Combatants : GiveAdvantage(h, r, t)
    \/ \E h \in ArenaIds, r \in Combatants, t \in Combatants : GiveDisadvantage(h, r, t)
    \/ \E c \in Combatants, d \in 1 .. MaxDamage : AtDamage(c, d)
    \/ \E c \in Combatants, room \in Places : MoveTo(c, room)
    \/ \E h \in ArenaIds : StopCombat(h)
    \/ \E h \in ArenaIds : StopCombatAgain(h)
    \/ \E h \in ArenaIds : TickStart(h)
    \/ TickPop
    \/ TickReturn

Spec == Init /\ [][Next]_vars

\* The reachable states of Spec are too many to enumerate, so the claims are
\* checked under three restrictions of it, each the whole program with the
\* environment held to the calls the claims of its group are about.

\* the scheduler: one anchor starts the fights, anybody in the roster queues
\* any action dict, the clock runs, the handler ticks
QueueAnchor == "p1"
NextQueue ==
    \/ Advance
    \/ \E target \in Combatants : CmdAttack(QueueAnchor, target)
    \/ \E h \in ArenaIds, c \in Combatants, ad \in ActionDicts : QueueAction(h, c, ad)
    \/ \E h \in ArenaIds : TickStart(h)
    \/ TickPop
    \/ TickReturn

SpecQueue == Init /\ [][NextQueue]_vars

\* the registry: anybody gets, creates, joins and stops handlers; advantage
\* and disadvantage are granted; non-repeating holds are queued and ticked
HoldOnce == [key |-> "hold", dt |-> 0, repeat |-> FALSE]
NextRegistry ==
    \/ \E obj \in Combatants : GetOrCreate(obj)
    \/ \E caller \in Combatants, target \in Combatants : CmdAttack(caller, target)
    \/ \E h \in ArenaIds, c \in Combatants : QueueAction(h, c, HoldOnce)
    \/ \E h \in ArenaIds : GiveAdvantage(h, "p1", "n1")
    \/ \E h \in ArenaIds : GiveDisadvantage(h, "n1", "p1")
    \/ \E h \in ArenaIds : StopCombat(h)
    \/ \E h \in ArenaIds : StopCombatAgain(h)
    \/ \E h \in ArenaIds : TickStart(h)
    \/ TickPop
    \/ TickReturn

SpecRegistry == Init /\ [][NextRegistry]_vars

\* the end of combat: the anchor starts the fights, combatants are hurt and
\* walk away while fights go on, non-repeating holds are queued and ticked
NextTerm ==
    \/ \E target \in Combatants : CmdAttack(QueueAnchor, target)
    \/ \E h \in ArenaIds, c \in Combatants : QueueAction(h, c, HoldOnce)
    \/ \E c \in Combatants, d \in 1 .. MaxDamage : AtDamage(c, d)
    \/ \E c \in Combatants, room \in Rooms : MoveTo(c, room)
    \/ \E h \in ArenaIds : TickStart(h)
    \/ TickPop
    \/ TickReturn

SpecTerm == Init /\ [][NextTerm]_vars

\* the flags: the anchor starts the fights, anybody is granted advantage or
\* disadvantage against anybody, non-repeating holds are queued and ticked,
\* fights are stopped
NextFlags ==
    \/ \E target \in Combatants : CmdAttack(QueueAnchor, target)
    \/ \E h \in ArenaIds, c \in Combatants : QueueAction(h, c, HoldOnce)
    \/ \E h \in ArenaIds, r \in Combatants, t \in Combatants :
          GiveAdvantage(h, r, t)
    \/ \E h \in ArenaIds, r \in Combatants, t \in Combatants :
          GiveDisadvantage(h, r, t)
    \/ \E h \in ArenaIds : StopCombat(h)
    \/ \E h \in ArenaIds : TickStart(h)
    \/ TickPop
    \/ TickReturn

SpecFlags == Init /\ [][NextFlags]_vars

\* the scopes: the anchor and the non-player walk out of the room with
\* combat, into a room without and out of every room, and back; the anchor
\* gives the commands with any target; a handler is asked for without an
\* owner; fights are stopped
ScopePlaces == {StartRoom, "town", NoLocation}
NextScope ==
    \/ \E target \in Targets : CmdAttack(QueueAnchor, target)
    \/ CmdHold(QueueAnchor)
    \/ GetOrCreate(NoObject)
    \/ \E c \in {QueueAnchor, "n1"}, room \in ScopePlaces : MoveTo(c, room)
    \/ \E h \in ArenaIds : StopCombat(h)

SpecScope == Init /\ [][NextScope]_vars

\* the stunts: the anchor starts the fights, anybody in the roster queues
\* stunts and non-repeating holds, flags are granted from outside, the
\* handler ticks
NextStunt ==
    \/ \E target \in Combatants : CmdAttack(QueueAnchor, target)
    \/ \E h \in ArenaIds, c \in Combatants, ad \in StuntDicts \cup {HoldOnce} :
          QueueAction(h, c, ad)
    \/ \E h \in ArenaIds : GiveAdvantage(h, "n1", "p1")
    \/ \E h \in ArenaIds : GiveDisadvantage(h, "n1", "p1")
    \/ \E h \in ArenaIds : TickStart(h)
    \/ TickPop
    \/ TickReturn

SpecStunt == Init /\ [][NextStunt]_vars

\* the attacks: the anchor attacks anybody, flags against the non-player are
\* granted from outside, the clock runs, the handler ticks
NextAttack ==
    \/ Advance
    \/ \E target \in Combatants : CmdAttack(QueueAnchor, target)
    \/ \E h \in ArenaIds : GiveAdvantage(h, QueueAnchor, "n1")
    \/ \E h \in ArenaIds : GiveDisadvantage(h, QueueAnchor, "n1")
    \/ \E h \in ArenaIds : TickStart(h)
    \/ TickPop
    \/ TickReturn

SpecAttack == Init /\ [][NextAttack]_vars

\* the commands: the anchor gives each of the five combat commands with any
\* target; the anchor and the non-player walk between the room with combat,
\* a room without and no room; fights are stopped
NextCommands ==
    \/ \E target \in Targets : CmdAttack(QueueAnchor, target)
    \/ CmdHold(QueueAnchor)
    \/ CmdWield(QueueAnchor)
    \/ \E recipient \in Combatants, target \in Targets :
          CmdStunt(QueueAnchor, recipient, target)
    \/ \E target \in Targets : CmdUseItem(QueueAnchor, target)
    \/ \E c \in {QueueAnchor, "n1"}, room \in ScopePlaces : MoveTo(c, room)
    \/ \E h \in ArenaIds : StopCombat(h)

SpecCommands == Init /\ [][NextCommands]_vars

\* the items: the anchor starts the fights, anybody in the roster queues the
\* use of a consumable and non-repeating holds, combatants walk between the
\* rooms, the handler ticks
NextUse ==
    \/ \E target \in Combatants : CmdAttack(QueueAnchor, target)
    \/ \E h \in ArenaIds, c \in Combatants, ad \in UseDicts \cup {HoldOnce} :
          QueueAction(h, c, ad)
    \/ \E c \in Combatants, room \in Rooms : MoveTo(c, room)
    \/ \E h \in ArenaIds : TickStart(h)
    \/ TickPop
    \/ TickReturn

SpecUse == Init /\ [][NextUse]_vars

\* the hits: the anchor starts the fights, combatants take the damage of
\* weapon rolls, some of them larger than the hit points left, non-repeating
\* holds are queued and ticked
NextDamage ==
    \/ \E target \in Combatants : CmdAttack(QueueAnchor, target)
    \/ \E h \in ArenaIds, c \in Combatants : QueueAction(h, c, HoldOnce)
    \/ \E c \in Combatants, d \in 1 .. StartHp + MaxDamage : AtDamage(c, d)
    \/ \E h \in ArenaIds : TickStart(h)
    \/ TickPop
    \/ TickReturn

SpecDamage == Init /\ [][NextDamage]_vars

\* ============================================================ the claims
\* a step that is one iteration of the loop of process_queue: it pops and
\* executes the head of the ticked handler's queue
PopStep == pc = "loop" /\ Len(executed') = Len(executed) + 1
\* the entry such a step has executed
JustExecuted == executed'[Len(executed')]
\* the step that ends a tick: process_queue returns or is left by an exception
TickEnds == pc = "loop" /\ pc' = "idle"
\* entry x is executed before entry y: earlier fire time, or the same fire
\* time and submitted earlier
Before(x, y) ==
    \/ x.time_to_act < y.time_to_act
    \/ x.time_to_act = y.time_to_act /\ x.seq < y.seq
\* the queue entries of combatant c in queue q
EntriesOf(q, c) == {i \in 1 .. Len(q) : q[i].combatant = c}

\* C1: every action a tick executes is, of all the actions pending in the
\* arena at that moment, the one with the least fire time and, among those of
\* that fire time, the one submitted first; so due actions run in
\* non-decreasing fire-time order and ties run in submission order.
C1_DueActionsInOrder ==
    [][PopStep =>
         \A i \in 1 .. Len(action_queue[tickH]) :
            LET y == action_queue[tickH][i]
            IN  y.seq = JustExecuted.seq \/ Before(JustExecuted, y)]_vars

\* C1 witness: a tick has executed two holds of the same fire time, the one
\* submitted first before the other.
C1_Witness ==
    /\ Len(executed) = 2
    /\ executed[1].time_to_act = executed[2].time_to_act
    /\ executed[1].seq < executed[2].seq
    /\ executed[1].outcome = "done"
    /\ executed[2].outcome = "done"

\* C2 (as claimed): when a tick ends, no action that was due at the tick's
\* time is left pending in the ticked arena.
C2_TickExecutesAllDue ==
    [][TickEnds =>
         \A i \in 1 .. Len(action_queue'[tickH]) :
            action_queue'[tickH][i].time_to_act > current_time]_vars

\* C3: no queue entry is executed twice: an entry is executed at most once,
\* a pending entry has not been executed, and no entry is pending twice.
C3_ConsumedOnce ==
    /\ \A i \in 1 .. MaxSeq : execCount[i] <= 1
    /\ \A h \in ArenaIds : \A i \in 1 .. Len(action_queue[h]) :
          /\ execCount[action_queue[h][i].seq] = 0
          /\ \A g \in ArenaIds : \A j \in 1 .. Len(action_queue[g]) :
                action_queue[g][j].seq = action_queue[h][i].seq => (g = h /\ j = i)

\* C3 witness: a tick has ended after executing two entries, each once, and
\* neither is pending any more.
C3_Witness ==
    /\ pc = "idle"
    /\ Len(executed) = 2
    /\ execCount[executed[1].seq] = 1
    /\ execCount[executed[2].seq] = 1

\* C7 (as claimed): after a tick has executed an action whose payload has
\* repeat=false, and combat goes on, the queue holds the arena's fallback
\* action for that combatant.
C7_FallbackQueued ==
    [][(/\ PopStep
        /\ "repeat" \in DOMAIN JustExecuted.action_dict
        /\ JustExecuted.action_dict.repeat = FALSE
        /\ alive'[tickH])
       => \E i \in EntriesOf(action_queue'[tickH], JustExecuted.combatant) :
             action_queue'[tickH][i].action_dict = fallback_action_dict]_vars

\* C8 (as claimed): after a tick has executed an action whose payload has
\* repeat=true, and combat goes on, the same payload is queued again for the
\* same combatant, due at the time of execution plus the payload's own delay.
C8_RepeatRequeued ==
    [][(/\ PopStep
        /\ "repeat" \in DOMAIN JustExecuted.action_dict
        /\ JustExecuted.action_dict.repeat = TRUE
        /\ alive'[tickH])
       => \E i \in EntriesOf(action_queue'[tickH], JustExecuted.combatant) :
             LET y == action_queue'[tickH][i]
             IN  /\ y.action_dict = JustExecuted.action_dict
                 /\ y.seq = nextSeq
                 /\ y.time_to_act = now + Get(y.action_dict, "dt", DefaultDt)]_vars

\* a step in which get_or_create_combathandler has returned a handler
Returns == ret' # NoRet /\ ret' # ret
\* handler h existed and has been stopped
Stopped(h) == h < nextArena /\ ~alive[h]
\* the handler a get_or_create has just created holds nothing from before:
\* no flags, and no roster member or queue entry but those the calling
\* command has added after the call
Fresh(r) ==
    /\ r.h = nextArena
    /\ advantage_against'[r.h] = {}
    /\ disadvantage_against'[r.h] = {}
    /\ SeqToSet(combatants'[r.h]) \subseteq
          (IF nextSeq' = nextSeq THEN {} ELSE Combatants)
    /\ Len(combatants'[r.h]) <= 2
    /\ \A i \in 1 .. Len(action_queue'[r.h]) :
          action_queue'[r.h][i].seq = nextSeq /\ nextSeq' = nextSeq + 1
    /\ nextSeq' = nextSeq => combatants'[r.h] = <<>>

\* C4 (as claimed): while the arena stored on a key is live, get_or_create for
\* that key returns that arena, and no key ever has two live arenas.
C4_SameArenaPerKey ==
    /\ (ret # NoRet /\ ret.prior # NoArena) => ret.h = ret.prior
    /\ \A obj \in Combatants : Cardinality(ScriptsOn(obj)) <= 1

\* C5 (as claimed): a stopped arena stays stopped and is never returned, and
\* once the arena of a key has been stopped and the key has no live arena,
\* get_or_create for that key returns a newly created, empty arena.
C5_NewArenaAfterStop ==
    [][/\ \A h \in ArenaIds : Stopped(h) => ~alive'[h]
       /\ Returns => alive'[ret'.h] /\ ~Stopped(ret'.h)
       /\ (/\ Returns
           /\ ScriptsOn(ret'.obj) = {}
           /\ \E h \in ArenaIds : Stopped(h) /\ anchor[h] = ret'.obj)
          => ret'.created /\ Fresh(ret')]_vars

\* the live arenas that have combatant c in their roster
ArenasOf(c) == {h \in ArenaIds : alive[h] /\ InSeq(c, combatants[h])}

\* C6 (as claimed): every combatant is in the roster of at most one live arena.
C6_RosterExclusive ==
    \A c \in Combatants : Cardinality(ArenasOf(c)) <= 1

\* the two sides check_stop_combat looks at: the anchor's side (in a PvP room
\* the anchor alone, else the roster members of the anchor's kind) and the
\* rest of the roster
AnchorSide(h) ==
    IF allow_pvp[location[anchor[h]]]
    THEN {anchor[h]}
    ELSE {c \in SeqToSet(combatants[h]) : (c \in PCs) = (anchor[h] \in PCs)}
OtherSide(h) == SeqToSet(combatants[h]) \ AnchorSide(h)
\* the members of S that are active in arena h: alive and in the arena's room
ActiveOf(h, S) == {c \in S : hp[c] > 0 /\ location[c] = location[anchor[h]]}
\* exactly one of the two sides of arena h has no active member
OneSideLeft(h) ==
    (ActiveOf(h, AnchorSide(h)) = {}) # (ActiveOf(h, OtherSide(h)) = {})

\* C9: when the check after an executed action finds exactly one side with no
\* active member, the arena ends and the victors are exactly the active
\* members of the other side, each once.
C9_OneSideLeftEnds ==
    [][(PopStep /\ JustExecuted.outcome = "done" /\ OneSideLeft(tickH)) =>
         LET won == ActiveOf(tickH, AnchorSide(tickH)) \cup
                    ActiveOf(tickH, OtherSide(tickH))
         IN  /\ ~alive'[tickH]
             /\ term'.h = tickH
             /\ term'.path = "victory"
             /\ SeqToSet(term'.victors) = won
             /\ Len(term'.victors) = Cardinality(won)]_vars

\* C9 witness: an arena has ended with two victors; of the losing side one
\* is dead or one has left the room alive.
C9_Witness ==
    /\ term.path = "victory"
    /\ ~alive[term.h]
    /\ Len(term.victors) = 2
    /\ Len(term.defeated) = 1
    /\ \A i \in 1 .. 2 : hp[term.victors[i]] > 0

\* the number of calls of the defeat hook on combatant d in the last ending
DefeatCallsOn(d) ==
    Cardinality({i \in 1 .. Len(term.defeatCalls) : term.defeatCalls[i] = d})

\* C10 (as claimed): in an ending with one side left the defeat hook is
\* called exactly once on each defeated combatant.
C10_DefeatHookOnce ==
    term.path = "victory" =>
        \A i \in 1 .. Len(term.defeated) : DefeatCallsOn(term.defeated[i]) = 1

\* the loot calls of the last ending in which combatant d is the one looted
LootCallsOn(d) ==
    {i \in 1 .. Len(term.lootCalls) : term.lootCalls[i][2] = d}

\* C11 (as claimed): in an ending with one side left each defeated combatant
\* is looted at most once, and only by a player-controlled victor.
C11_LootedAtMostOnce ==
    term.path = "victory" =>
        /\ \A i \in 1 .. Len(term.defeated) :
              Cardinality(LootCallsOn(term.defeated[i])) <= 1
        /\ \A i \in 1 .. Len(term.lootCalls) : term.lootCalls[i][1] \in PCs

\* C12: when the check after an executed action finds no active member on
\* either side, the arena ends through the "no one stands" path and neither
\* the loot hook nor the defeat hook is called.
C12_NooneStands ==
    [][(/\ PopStep
        /\ JustExecuted.outcome = "done"
        /\ ActiveOf(tickH, AnchorSide(tickH)) = {}
        /\ ActiveOf(tickH, OtherSide(tickH)) = {})
       => /\ ~alive'[tickH]
          /\ term'.h = tickH
          /\ term'.path = "noone"
          /\ term'.lootCalls = <<>>
          /\ term'.defeatCalls = <<>>]_vars

\* C12 witness: an arena of three combatants, a player among them, has ended
\* with nobody standing: each of them is dead or has left the room.
C12_Witness ==
    /\ term.path = "noone"
    /\ ~alive[term.h]
    /\ Len(term.defeated) = 3
    /\ \E i \in 1 .. 3 : term.defeated[i] \in PCs /\ hp[term.defeated[i]] <= 0
    /\ \E i \in 1 .. 3 :
          location[term.defeated[i]] # location[anchor[term.h]]

\* the room of arena h
RoomOf(h) == location[anchor[h]]

\* C17 (as claimed): in a room without allow_pvp, get_sides(c) for a roster
\* member c returns two disjoint lists that hold every roster member but c,
\* the allies being those of c's own kind.
C17_SidesExcludeSelf ==
    \A h \in ArenaIds : \A c \in SeqToSet(combatants[h]) :
        (alive[h] /\ ~allow_pvp[RoomOf(h)]) =>
            LET allies == SeqToSet(GetSides(h, c).allies)
                enemies == SeqToSet(GetSides(h, c).enemies)
                roster == SeqToSet(combatants[h])
            IN  /\ c \notin allies
                /\ c \notin enemies
                /\ allies \cap enemies = {}
                /\ allies \cup enemies = roster \ {c}
                /\ allies = {x \in roster \ {c} : (x \in PCs) = (c \in PCs)}

\* C18: in a room with allow_pvp, get_sides(c) returns every roster member
\* other than c as an enemy, each once, and nobody but c as an ally,
\* whatever the kinds of the members.
C18_PvpSides ==
    \A h \in ArenaIds : \A c \in Combatants :
        (alive[h] /\ allow_pvp[RoomOf(h)]) =>
            /\ SeqToSet(GetSides(h, c).enemies) = SeqToSet(combatants[h]) \ {c}
            /\ Len(GetSides(h, c).enemies) =
                  Cardinality(SeqToSet(combatants[h]) \ {c})
            /\ SeqToSet(GetSides(h, c).allies) \subseteq {c}

\* C18 witness: a live arena in a PvP room whose roster holds two players and
\* a non-player.
C18_Witness ==
    \E h \in ArenaIds :
        /\ alive[h]
        /\ allow_pvp[RoomOf(h)]
        /\ SeqToSet(combatants[h]) = Combatants

\* C20 (as claimed): when a tick ends and one of the two sides, though it has
\* members, has no active member, the arena has ended.
C20_EndedWithinOneTick ==
    [][(/\ TickEnds
        /\ alive[tickH]
        /\ AnchorSide(tickH) # {}
        /\ OtherSide(tickH) # {}
        /\ \/ ActiveOf(tickH, AnchorSide(tickH)) = {}
           \/ ActiveOf(tickH, OtherSide(tickH)) = {})
       => ~alive'[tickH]]_vars

\* the keys of the five kinds of action
KnownKeys == {"hold", "attack", "stunt", "use", "wield"}

\* C16: queue_action for a combatant outside the roster, or with a dict whose
\* key is missing or unknown, returns without raising and changes nothing:
\* queue, roster, flags, handlers and back-references stay as they are; so
\* every queued entry has a known key and a combatant of the roster.
C16_RejectedUnchanged ==
    /\ [](\A h \in ArenaIds : \A i \in 1 .. Len(action_queue[h]) :
            LET e == action_queue[h][i]
            IN  /\ "key" \in DOMAIN e.action_dict
                /\ e.action_dict.key \in KnownKeys
                /\ InSeq(e.combatant, combatants[h]))
    /\ [][fault'.exc = "rejected" =>
            /\ fault'.op = "queue_action"
            /\ UNCHANGED <<action_queue, combatants, advantage_against,
                           disadvantage_against, alive, anchor, ndb, hp,
                           location, nextSeq>>]_vars

\* C16 witness: a queue_action has just been refused by a live arena that has
\* a roster and a pending entry.
C16_Witness ==
    /\ fault.op = "queue_action"
    /\ fault.exc = "rejected"
    /\ alive[fault.h]
    /\ Len(combatants[fault.h]) = 2
    /\ Len(action_queue[fault.h]) >= 1

\* C14 (as claimed): stop_combat called on an arena that has been stopped
\* does not raise, changes nothing, and leaves no back-reference and no
\* stored script that names the stopped arena.
C14_SecondStopSafe ==
    [][(fault'.op = "stop_combat" /\ Stopped(fault'.h)) =>
         /\ fault'.exc = "none"
         /\ UNCHANGED <<arenaVars, advVars, ndb, worldVars>>
         /\ \A c \in Combatants : ndb'[c] # fault'.h
         /\ ~alive'[fault'.h]]_vars

\* C13: when the check after an executed action finds an active member on
\* each side, it changes nothing: the roster, the flags, the back-references
\* and the handlers stay as they are, the entries the pop has left stay
\* queued, and neither the defeat hook nor the loot hook is called.
C13_ContinueChangesNothing ==
    [][(/\ PopStep
        /\ JustExecuted.outcome = "done"
        /\ ActiveOf(tickH, AnchorSide(tickH)) # {}
        /\ ActiveOf(tickH, OtherSide(tickH)) # {})
       => /\ UNCHANGED <<alive, anchor, combatants, advantage_against,
                         disadvantage_against, ndb>>
          /\ alive'[tickH]
          /\ \A i \in 2 .. Len(action_queue[tickH]) :
                \E j \in 1 .. Len(action_queue'[tickH]) :
                   action_queue'[tickH][j] = action_queue[tickH][i]
          /\ \A h \in ArenaIds \ {tickH} : action_queue'[h] = action_queue[h]
          /\ term' = NoTerm]_vars

\* C13 witness: a tick has executed a hold in an arena of two players and a
\* non-player that has flags of both kinds and entries still queued, and the
\* arena goes on.
C13_Witness ==
    /\ pc = "loop"
    /\ Len(executed) = 1
    /\ executed[1].outcome = "done"
    /\ alive[tickH]
    /\ Len(combatants[tickH]) = 3
    /\ advantage_against[tickH] # {}
    /\ disadvantage_against[tickH] # {}
    /\ Len(action_queue[tickH]) = 2

\* C15: when stop_combat has run, the arena's roster and queue are empty, no
\* combatant of its former roster has a back-reference to it, and no live
\* handler is stored on its anchor.
C15_StopCleansUp ==
    [][\A h \in ArenaIds : (alive[h] /\ ~alive'[h]) =>
          /\ combatants'[h] = <<>>
          /\ action_queue'[h] = <<>>
          /\ \A c \in SeqToSet(combatants[h]) : ndb'[c] # h
          /\ \A g \in ArenaIds : ~(alive'[g] /\ anchor'[g] = anchor[h])]_vars

\* C15 witness: stop_combat has just stopped the first arena, in which two
\* entries had been queued, and nobody has a back-reference any more.
C15_Witness ==
    /\ fault = [op |-> "stop_combat", h |-> 1, exc |-> "none"]
    /\ ~alive[1]
    /\ nextArena = 2
    /\ nextSeq = 3
    /\ \A c \in Combatants : ndb[c] = NoArena

ExampleRoster(h) ==
    /\ ~allow_pvp[RoomOf(h)]
    /\ SeqToSet(combatants[h]) = {"p1", "p2", "n1"}
    /\ \A c \in Combatants : location[c] = RoomOf(h)
    /\ hp["p1"] > 0
    /\ hp["p2"] <= 0
\* the ending the example expects of the step: the players' side has won
\* with p1 its one victor, p2 is among the defeated, the defeat hook has been
\* called once on n1, and the arena has ended
ExampleEnding ==
    /\ ~alive'[tickH]
    /\ term'.h = tickH
    /\ term'.path = "victory"
    /\ term'.victors = <<"p1">>
    /\ InSeq("p2", term'.defeated)
    /\ Cardinality({i \in 1 .. Len(term'.defeatCalls) :
                       term'.defeatCalls[i] = "n1"}) = 1

\* C22 (as claimed): with the roster {P1 (hp > 0), P2 (hp = 0), N1 (hp > 0)}
\* and no PvP, the check declares the players' side victorious, calls the
\* defeat hook once on N1 and ends the arena.
C22_TerminationExample ==
    [][(/\ PopStep
        /\ JustExecuted.outcome = "done"
        /\ ExampleRoster(tickH)
        /\ hp["n1"] > 0)
       => ExampleEnding]_vars

\* C22 (amended): with that roster the arena goes on, and no hook is called,
\* as long as N1 has hp > 0; when N1 is at hp <= 0 the check declares the
\* players' side victorious with P1 the one victor, P2 and N1 defeated, calls
\* the defeat hook once on N1 and ends the arena.
C22_TerminationAmended ==
    [][(/\ PopStep
        /\ JustExecuted.outcome = "done"
        /\ ExampleRoster(tickH))
       => IF hp["n1"] > 0
          THEN alive'[tickH] /\ term' = NoTerm
          ELSE ExampleEnding /\ InSeq("n1", term'.defeated)]_vars

\* C22 witness: an arena of p1, p2 and n1, all in its room, has ended with
\* p1 the one victor and p2 and n1, both at hp <= 0, defeated.
C22_Witness ==
    /\ term.path = "victory"
    /\ ~alive[term.h]
    /\ term.victors = <<"p1">>
    /\ SeqToSet(term.defeated) = {"p2", "n1"}
    /\ hp["p2"] <= 0
    /\ hp["n1"] <= 0
    /\ \A c \in Combatants : location[c] = RoomOf(term.h)
    /\ ~allow_pvp[RoomOf(term.h)]

\* the caller has no location, or is in a location without allow_combat
InvalidScope(c) == location[c] = NoLocation \/ ~allow_combat[location[c]]
\* the registry, the rosters, the queues, the flags and the back-references
\* are as they were
RegistryUnchanged ==
    UNCHANGED <<nextArena, alive, anchor, combatants, action_queue,
                advantage_against, disadvantage_against, ndb, nextSeq>>

\* C23: a combat command given by a caller that has no location or is in a
\* location without allow_combat, a command whose target is missing or is no
\* character, and get_or_create without an owner object create no arena and
\* leave the registry, every roster and every queue as they were.
C23_InvalidScopeAborts ==
    [][/\ \A c \in Combatants, t \in Targets :
             ((InvalidScope(c) \/ t \notin Combatants) /\ CmdAttack(c, t))
                => RegistryUnchanged
       /\ \A c \in Combatants : CmdHold(c) => RegistryUnchanged
       /\ GetOrCreate(NoObject) => RegistryUnchanged]_vars

\* C23 witness: an attack command of the anchor has just been given up
\* while the anchor is in the room without combat and its target in no room,
\* and an arena with a roster and a pending entry is live.
C23_Witness ==
    /\ fault = [op |-> "CmdAttack", h |-> NoArena, exc |-> "InterruptCommand"]
    /\ location[QueueAnchor] = "town"
    /\ location["n1"] = NoLocation
    /\ \E h \in ArenaIds :
          alive[h] /\ Len(combatants[h]) = 2 /\ action_queue[h] # <<>>

\* C24 (as claimed): a tick queues an executed action again only if its
\* payload carries repeat=true: after the execution of an action without a
\* repeat flag, or with repeat=false, no entry has been added to the queue.
C24_RequeueOnlyIfRepeat ==
    [][(/\ PopStep
        /\ JustExecuted.outcome = "done"
        /\ ~(/\ "repeat" \in DOMAIN JustExecuted.action_dict
             /\ JustExecuted.action_dict.repeat = TRUE))
       => /\ nextSeq' = nextSeq
          /\ \A i \in 1 .. Len(action_queue'[tickH]) :
                \E j \in 1 .. Len(action_queue[tickH]) :
                   action_queue[tickH][j] = action_queue'[tickH][i]]_vars

\* C25 (as claimed): a tick ends the arena only after it has executed every
\* action due in that tick: in the step of a tick that ends the arena, no
\* entry other than the one just executed was pending with a fire time at or
\* before the tick's time.
C25_DueActionsBeforeEnd ==
    [][(PopStep /\ alive[tickH] /\ ~alive'[tickH]) =>
         \A i \in 2 .. Len(action_queue[tickH]) :
            action_queue[tickH][i].time_to_act > current_time]_vars

\* C26 (as claimed): in an ending with one side left, a combatant that has
\* hp > 0 and counts as defeated only because it is no longer in the arena's
\* room gets neither the defeat hook nor the loot hook.
C26_LeaverNotDefeated ==
    term.path = "victory" =>
        \A i \in 1 .. Len(term.defeated) :
            LET d == term.defeated[i]
            IN  (hp[d] > 0 /\ location[d] # RoomOf(term.h)) =>
                    DefeatCallsOn(d) = 0 /\ LootCallsOn(d) = {}

\* the delay of an action dict, a negative delay counting as none
DelayFromZero(ad) ==
    IF Get(ad, "dt", DefaultDt) < 0 THEN 0 ELSE Get(ad, "dt", DefaultDt)

\* C27 (as claimed): an entry is queued with a fire time of its submission
\* time plus its delay, a negative delay counting as 0; so no entry is queued
\* with a fire time before its submission time.
C27_FireTimeNotBeforeSubmission ==
    [][\A h \in ArenaIds : \A i \in 1 .. Len(action_queue'[h]) :
          LET e == action_queue'[h][i]
          IN  (e.seq = nextSeq /\ nextSeq' = nextSeq + 1) =>
                 /\ e.time_to_act >= now
                 /\ e.time_to_act = now + DelayFromZero(e.action_dict)]_vars

\* C28: once stop_combat has run inside a tick, the tick executes no further
\* action and queues nothing; and the queue and the roster of an arena that
\* has ended are and stay empty.
C28_NothingAfterStop ==
    /\ [](\A h \in ArenaIds :
            ~alive[h] => action_queue[h] = <<>> /\ combatants[h] = <<>>)
    /\ [][(pc = "loop" /\ ~alive[tickH]) =>
            /\ executed' = executed
            /\ nextSeq' = nextSeq
            /\ execCount' = execCount
            /\ pc' # "loop" \/ now' # now]_vars

\* C28 witness: the running tick has ended its arena after its first action,
\* while another action that was due in the same tick was pending; that one
\* has not been executed.
C28_Witness ==
    /\ pc = "loop"
    /\ ~alive[tickH]
    /\ term.h = tickH
    /\ Len(executed) = 1
    /\ executed[1].due >= 1
    /\ \E i \in 1 .. MaxSeq : i < nextSeq /\ execCount[i] = 0

\* the arenas a step has changed: their being live, roster, queue or flags
Touched ==
    {h \in ArenaIds :
        <<alive[h], combatants[h], action_queue[h], advantage_against[h],
          disadvantage_against[h]>> #
        <<alive'[h], combatants'[h], action_queue'[h], advantage_against'[h],
          disadvantage_against'[h]>>}
\* a call of get_or_create_combathandler on its own, with no operation of an
\* arena behind it
BareGetOrCreate == Returns /\ nextSeq' = nextSeq

\* C29 (as claimed): an operation on one arena (add_combatant, queue_action,
\* a tick with its check_stop_combat, stop_combat) changes no other arena:
\* a step changes at most one arena, and every other live arena keeps its
\* roster, queue and flags, and its roster members keep their
\* back-references.
C29_ArenasIndependent ==
    [][(Touched # {} /\ ~BareGetOrCreate) =>
         /\ Cardinality(Touched) = 1
         /\ \A B \in ArenaIds \ Touched :
               alive[B] =>
                  \A c \in SeqToSet(combatants[B]) : ndb'[c] = ndb[c]]_vars

\* C30 (as claimed): the execution of a stunt makes its opposed check and
\* returns; if the check has failed both flag maps are as they were, and if
\* it has succeeded exactly one flag has been set, for the stunt's target:
\* advantage if the payload's advantage is true, else disadvantage.
C30_StuntSetsOneFlag ==
    [][(PopStep /\ JustExecuted.action_dict.key = "stunt") =>
         LET ad == JustExecuted.action_dict
             h == tickH
         IN  /\ JustExecuted.outcome = "done"
             /\ \A g \in ArenaIds \ {h} :
                   /\ advantage_against'[g] = advantage_against[g]
                   /\ disadvantage_against'[g] = disadvantage_against[g]
             /\ alive'[h] =>
                   \/ /\ advantage_against'[h] = advantage_against[h]
                      /\ disadvantage_against'[h] = disadvantage_against[h]
                   \/ /\ ad.advantage
                      /\ advantage_against'[h] =
                            advantage_against[h] \cup {ad.target}
                      /\ disadvantage_against'[h] = disadvantage_against[h]
                   \/ /\ ~ad.advantage
                      /\ disadvantage_against'[h] =
                            disadvantage_against[h] \cup {ad.target}
                      /\ advantage_against'[h] = advantage_against[h]]_vars

\* the target of the attack a pop step has executed
AttackTarget == JustExecuted.action_dict.target
\* a pop step that has executed an attack
AttackStep == PopStep /\ JustExecuted.action_dict.key = "attack"

\* C31: an attack is resolved with the disadvantage flag the arena holds for
\* (attacker, target): whenever has_disadvantage(attacker, target) is true
\* when the attack is executed, the attack is carried out and the weapon's
\* resolution receives disadvantage = true.
C31_AttackGetsDisadvantage ==
    [][(AttackStep /\ HasDisadvantage(tickH, JustExecuted.combatant, AttackTarget))
         => /\ JustExecuted.outcome = "done"
            /\ WeaponUseArgs(tickH, JustExecuted.combatant,
                             AttackTarget).disadvantage]_vars

\* C32: advantage and disadvantage last for one action: once an attack on a
\* target has been executed and the arena goes on, has_advantage and
\* has_disadvantage for that target are false.
C32_FlagsSpentByNextAction ==
    [][(AttackStep /\ alive'[tickH])
         => /\ AttackTarget \notin advantage_against'[tickH]
            /\ AttackTarget \notin disadvantage_against'[tickH]]_vars

\* the pending actions of kind k combatant c has in the queues of the live
\* handlers
PendingOf(c, k) ==
    {<<h, i>> \in ArenaIds \X (1 .. MaxQueue + 1) :
        /\ alive[h]
        /\ i <= Len(action_queue[h])
        /\ action_queue[h][i].combatant = c
        /\ action_queue[h][i].action_dict.key = k}
\* the step has left caller c with a live handler and one more pending action
\* of kind k, and nothing was raised
QueuedOne(c, k) ==
    /\ ndb'[c] # NoArena
    /\ alive'[ndb'[c]]
    /\ Cardinality(PendingOf(c, k)') = Cardinality(PendingOf(c, k)) + 1
    /\ fault'.exc = "none"

\* C33: each combat command (attack, hold, stunt, use, wield) given with
\* valid arguments by a combatant in a location with combat obtains or
\* creates the caller's arena and leaves one more pending action of its kind
\* for the caller in a queue, without raising.
C33_CommandsQueueTheirAction ==
    [][\A c \in Combatants, r \in Combatants, t \in Combatants :
          (AtPreCommand(c) /\ Search(c, t) /\ Search(c, r))
             => /\ CmdAttack(c, t) => QueuedOne(c, "attack")
                /\ CmdHold(c) => QueuedOne(c, "hold")
                /\ CmdStunt(c, r, t) => QueuedOne(c, "stunt")
                /\ CmdUseItem(c, t) => QueuedOne(c, "use")
                /\ CmdWield(c) => QueuedOne(c, "wield")]_vars

\* a pop step that has executed the use of an item
UseStep == PopStep /\ JustExecuted.action_dict.key = "use"
\* the item has uses left and the target, if any, is where the user is
UsePasses(ad, user) ==
    /\ uses[ad.item] > 0
    /\ ad.target # NoObject => location[ad.target] = location[user]

\* C34: the use of a consumable passes the pre-use gate if and only if the
\* item has uses left and the target, if any, is in the user's location;
\* when the gate passes the effect runs and the post-use hook takes one use
\* off the item, when it fails the uses stay as they are.
C34_UseItemGate ==
    [][UseStep =>
         LET ad == JustExecuted.action_dict
             user == JustExecuted.combatant
         IN  /\ Truthy(AtPreUse(ad.item, user, ad.target)) <=> UsePasses(ad, user)
             /\ JustExecuted.outcome = "done"
             /\ uses' = IF UsePasses(ad, user)
                        THEN [uses EXCEPT ![ad.item] = @ - 1]
                        ELSE uses]_vars

\* C35: the health of a combatant is never negative: after any sequence of
\* attacks and damage applications hp >= 0 holds for every combatant.
C35_HpNeverNegative == \A c \in Combatants : hp[c] >= 0

\* C36: back-references and rosters agree in every reachable state: for
\* every live arena and every combatant, the combatant is in the arena's
\* roster if and only if its ndb.combathandler is that arena.
C36_BackRefsMatchRosters ==
    \A h \in ArenaIds, c \in Combatants :
       alive[h] => (InSeq(c, combatants[h]) <=> ndb[c] = h)

\* C37: no action is executed on behalf of a combatant whose hp <= 0: while
\* the arena goes on, every action a tick executes belongs to a combatant
\* with hp > 0.
C37_DefeatedDoNotAct ==
    [][(PopStep /\ alive'[tickH]) => hp[JustExecuted.combatant] > 0]_vars

\* the log entries of the running tick that were followed by a re-queue:
\* executed without raising, with a "repeat" that is true or missing
Requeued ==
    {i \in 1 .. Len(executed) :
        /\ executed[i].outcome = "done"
        /\ Get(executed[i].action_dict, "repeat", TRUE)}
\* the submission number the next accepted entry had when the running tick
\* started: every re-queue of the tick has taken one number
SeqAtTickStart == nextSeq - Cardinality(Requeued)

\* C38: an action that is queued again during a tick is not executed again
\* within the same tick, whatever its delay: every entry the tick has
\* executed was in the queue when the tick started, and no entry queued
\* during the tick is due in it (the loop executes every due entry before it
\* returns).
C38_RequeuedWaitForNextTick ==
    /\ \A i \in 1 .. Len(executed) : executed[i].seq < SeqAtTickStart
    /\ pc = "loop" =>
          \A i \in 1 .. Len(action_queue[tickH]) :
             LET e == action_queue[tickH][i]
             IN  e.seq >= SeqAtTickStart => e.time_to_act > current_time

\* the outcome of check_stop_combat with obj as the anchor: how it ends (or
\* goes on) and the sets of victors and defeated
OutcomeOn(h, obj) ==
    LET r == CheckStopCombatOn(h, obj)
    IN  [path |-> r.path, victors |-> SeqToSet(r.victors),
         defeated |-> SeqToSet(r.defeated)]

\* C39: the outcome of check_stop_combat for given roster, hp values and
\* locations does not depend on which roster member is the arena's anchor,
\* in PvP and in non-PvP locations.
C39_OutcomeAnchorFree ==
    \A h \in ArenaIds :
       alive[h] =>
          \A a \in SeqToSet(combatants[h]), b \in SeqToSet(combatants[h]) :
             OutcomeOn(h, a) = OutcomeOn(h, b)

\* C40: in every reachable state every pending action of a live arena
\* belongs to a combatant that is in that arena's roster, and an arena that
\* has ended has no pending actions.
C40_PendingBelongToRoster ==
    \A h \in ArenaIds :
       IF alive[h]
       THEN \A c \in Combatants :
               EntriesOf(action_queue[h], c) # {} => InSeq(c, combatants[h])
       ELSE action_queue[h] = <<>>

\* C40 witness: the anchor's first arena has ended, and its second arena
\* holds pending actions of two roster members while the third combatant,
\* who is not in the roster, has none.
C40_Witness ==
    /\ Stopped(1)
    /\ alive[2]
    /\ Len(combatants[2]) = 2
    /\ \A c \in Combatants :
          EntriesOf(action_queue[2], c) # {} <=> InSeq(c, combatants[2])

====
